---------------------------- MODULE Spec2Model ----------------------------
(***************************************************************************)
(* CommunicationTester (test-communication script of Horary Master):       *)
(* discovery of a backend, spawn with script fallback, health-gated wait,  *)
(* endpoint probes, stop and report.                                       *)
(*                                                                         *)
(* The file system, the OS process table, the HTTP server on               *)
(* localhost:5000 and the clock are the environment: each existsSync,      *)
(* spawn, request and timer outcome is a nondeterministic input.           *)
(* A result is modelled by its test name and passed flag; the free-text    *)
(* details (paths, PIDs, timings, error messages) are left out.            *)
(*                                                                         *)
(* validateIcons (icon validation script) is a second program over its     *)
(* own variables, specified by IconSpec: the assets directory, the icon    *)
(* files, package.json and main.js are its inputs.                         *)
(***************************************************************************)
EXTENDS Integers, Sequences, FiniteSets, TLC

(* ---------------------------- bounds ----------------------------------- *)
\* Request latencies and timer lateness are whole multiples of the sleep
\* interval, from 0 up to MaxDelaySteps of them.
MaxDelaySteps == 1

\* Calls of stopBackend the caller makes itself, on a fresh tester or after a
\* run has returned.
MaxExtraStops == 2

\* Health requests and sleeps of a waitForBackend call are counted up to
\* CountCap; from there on the counters stay at CountCap.
CountCap == 2

(* ------------------------ program constants ---------------------------- *)
DefaultTimeout == 30000
SleepMs == 1000

\* JavaScript null, and "no value yet" for a call that has not returned.
Null == [kind |-> "null"]
Pending == [kind |-> "pending"]
Thrown == [kind |-> "thrown"]
Returned(v) == [ret |-> v]

Delays == { i * SleepMs : i \in 0..MaxDelaySteps }

\* Timeouts a direct caller of waitForBackend(timeout) passes.
TimeoutInputs == { 0 - SleepMs, 0, SleepMs + (SleepMs \div 2) }

Runtimes == {"packaged", "dev", "node"}
Platforms == {"win32", "posix"}

\* this.isPackaged = !process.defaultApp : only the Electron development
\* runtime sets process.defaultApp.
IsPackaged(rt) == rt # "dev"

\* process.resourcesPath exists only under Electron; path.join throws a
\* TypeError on an undefined segment.
ResourcesPathDefined(rt) == rt # "node"

ExecutableName(pf) == IF pf = "win32" THEN "horary_backend.exe" ELSE "horary_backend"

PackagedDirs ==
    << "resources/backend", "resources/app/backend",
       "resources/app.asar.unpacked/backend", "../app.asar.unpacked/backend",
       "exec/resources/backend", "exec/resources/app/backend",
       "exec/resources/app.asar.unpacked/backend" >>

Path(dir, file) == [dir |-> dir, file |-> file]

DevExeDirs == << "../../backend/dist", "../backend", "backend" >>

DevScriptDirs == << "../../backend", "../backend", "backend" >>

\* possiblePaths of findBackendExecutable
ExePaths(rt, pf) ==
    LET dirs == IF IsPackaged(rt) THEN PackagedDirs ELSE DevExeDirs
    IN  [ i \in 1..Len(dirs) |-> Path(dirs[i], ExecutableName(pf)) ]

\* possiblePaths of findBackendScript
ScriptDirs(rt) == IF IsPackaged(rt) THEN PackagedDirs ELSE DevScriptDirs

AppScript(dir) == Path(dir, "app.py")

\* Variant of FindLoop: the loop does not return at the first hit and the
\* last existing candidate wins.
RECURSIVE FindLoop_KeepsScanning(_, _, _, _)
FindLoop_KeepsScanning(paths, exists, i, checked) ==
    IF i > Len(paths)
    THEN LET hits == { k \in 1..Len(checked) : checked[k].exists }
         IN  [ hit |-> IF hits = {} THEN 0
                       ELSE CHOOSE k \in hits : \A j \in hits : j <= k,
               checked |-> checked ]
    ELSE FindLoop_KeepsScanning(paths, exists, i + 1,
             Append(checked, [path |-> paths[i], exists |-> paths[i] \in exists]))

\* The for-loop of both discovery functions: check the candidates in list
\* order, stop at the first one existsSync accepts.  checked is the sequence
\* of existsSync calls made with their answers.
RECURSIVE FindLoop(_, _, _, _)
FindLoop(paths, exists, i, checked) ==
    IF i > Len(paths)
    THEN [ hit |-> 0, checked |-> checked ]
    ELSE IF paths[i] \in exists
         THEN [ hit |-> i,
                checked |-> Append(checked, [path |-> paths[i], exists |-> TRUE]) ]
         ELSE FindLoop(paths, exists, i + 1,
                       Append(checked, [path |-> paths[i], exists |-> FALSE]))

Range(s) == { s[i] : i \in 1..Len(s) }

(* ------------------------------ state ---------------------------------- *)
VARIABLES
    runtime,         \* Electron packaged / Electron dev / plain node
    platform,        \* process.platform
    entry,           \* the public method the caller invoked
    pc,              \* position of the single thread of control
    backendProcess,  \* this.backendProcess : Null or the spawned child
    testResults,     \* this.testResults
    calls,           \* methods entered and spawn calls made so far, in order
    exeLog,          \* existsSync calls of findBackendExecutable
    scriptLog,       \* existsSync calls of findBackendScript
    executable,      \* value returned by findBackendExecutable
    scriptInfo,      \* value returned by findBackendScript
    spawns,          \* spawn() calls made for a backend, in order
    errPending,      \* a child 'error' event is queued
    startRet,        \* value returned by startBackend
    timeout,         \* waitForBackend's timeout argument
    elapsed,         \* Date.now() - startTime inside waitForBackend
    lastProbeAt,     \* elapsed at the start of the latest health request
    prevProbeAt,     \* elapsed at the start of the one before
    probes,          \* health requests issued by waitForBackend (capped)
    sleeps,          \* sleeps completed by waitForBackend (capped)
    response,        \* how the request in flight settled
    waitRet,         \* value returned by waitForBackend
    epRequests,      \* requests issued by testEndpoints, in order
    signals,         \* termination signals sent
    report,          \* value returned by generateReport
    extraStops,      \* stopBackend calls made by the caller itself
    exitCode,        \* process.exit code of the script, -1 while running
    assetsDir,       \* the assets directory exists
    iconFiles,       \* icon file name -> Null (missing) or [size |-> bytes]
    packageJson,     \* package.json as the icon validation finds it
    mainJs,          \* main.js as the icon validation finds it
    vpc,             \* position of validateIcons
    iconIndex,       \* entry of requiredIcons the forEach is at
    allValid,        \* validateIcons' allValid
    errorsLogged,    \* console.error lines of validateIcons, as tags
    warnings,        \* console.warn lines of validateIcons, as tags
    checksRun,       \* checks validateIcons has run, in order
    validateRet      \* value returned by validateIcons

vars == << runtime, platform, entry, pc, backendProcess, testResults, calls,
           exeLog, scriptLog, executable, scriptInfo, spawns, errPending,
           startRet, timeout, elapsed, lastProbeAt,
           prevProbeAt, response, waitRet, epRequests, signals, report,
           extraStops, exitCode, probes, sleeps,
           assetsDir, iconFiles, packageJson, mainJs, vpc, iconIndex,
           allValid, errorsLogged, warnings, checksRun, validateRet >>

envVars == << runtime, platform >>
iconEnvVars == << assetsDir, iconFiles, packageJson, mainJs >>
iconVars == << iconEnvVars, vpc, iconIndex, allValid, errorsLogged, warnings,
               checksRun, validateRet >>
callerVars == << extraStops, exitCode >>
findVars == << exeLog, scriptLog, executable, scriptInfo >>
countVars == << probes, sleeps >>
waitVars == << timeout, elapsed, lastProbeAt, prevProbeAt, waitRet, countVars >>
testerVars == << entry, pc, backendProcess, testResults, calls, findVars,
                 spawns, errPending, startRet, waitVars, response,
                 epRequests, signals, report, callerVars >>

\* A counter that saturates at CountCap.
Count(n) == IF n < CountCap THEN n + 1 ELSE CountCap

\* requiredIcons of validateIcons, in the order Object.entries yields them.
requiredIcons ==
    << [filename |-> "icon.ico", platform |-> "Windows", minSize |-> 1000],
       [filename |-> "icon.icns", platform |-> "macOS", minSize |-> 10000],
       [filename |-> "icon.png", platform |-> "Linux", minSize |-> 1000] >>

IconNames == { requiredIcons[i].filename : i \in 1..Len(requiredIcons) }

\* An icon file is missing, one byte under its minimum size, or at it.
IconFileStates(cfg) ==
    { Null, [size |-> cfg.minSize - 1], [size |-> cfg.minSize] }

IconLayouts ==
    { f \in [IconNames -> UNION { IconFileStates(requiredIcons[i]) :
                                    i \in 1..Len(requiredIcons) }] :
        \A i \in 1..Len(requiredIcons) :
            f[requiredIcons[i].filename] \in IconFileStates(requiredIcons[i]) }

\* The entries of packageJson.build that validateIcons tests for an icon.
BuildKeys == {"icon", "win", "mac", "linux"}

\* package.json: readFileSync throws, JSON.parse throws, the text is the
\* JSON value null, or it is an object whose build section configures an
\* icon under the entries of `build`.
PackageJsons ==
    { [kind |-> "unreadable"], [kind |-> "malformed"], [kind |-> "null"] }
    \cup { [kind |-> "object", build |-> b] : b \in SUBSET BuildKeys }

\* The substrings validateIcons looks for in main.js.
MainTokens == {"icon:", "assets", "process.platform"}

\* main.js: readFileSync throws, or the text holds the substrings `includes`.
MainJss ==
    { [kind |-> "unreadable"] }
    \cup { [kind |-> "text", includes |-> t] : t \in SUBSET MainTokens }

\* validateIcons has not been called.
IconsIdle ==
    /\ vpc = "idle"
    /\ iconIndex = 0
    /\ allValid = TRUE
    /\ errorsLogged = {}
    /\ warnings = {}
    /\ checksRun = << >>
    /\ validateRet = Pending

\* A CommunicationTester after construction.
TesterInit ==
    /\ runtime \in Runtimes
    /\ platform \in Platforms
    /\ entry = "none"
    /\ pc = "idle"
    /\ backendProcess = Null
    /\ testResults = << >>
    /\ calls = << >>
    /\ exeLog = << >>
    /\ scriptLog = << >>
    /\ executable = Pending
    /\ scriptInfo = Pending
    /\ spawns = << >>
    /\ errPending = FALSE
    /\ startRet = Pending
    /\ timeout = 0
    /\ elapsed = 0
    /\ lastProbeAt = -1
    /\ prevProbeAt = -1
    /\ response = "none"
    /\ waitRet = Pending
    /\ epRequests = << >>
    /\ signals = << >>
    /\ report = Null
    /\ extraStops = 0
    /\ exitCode = -1
    /\ probes = 0
    /\ sleeps = 0

\* The communication test: it never looks at the icon files, which are
\* taken as absent, and validateIcons is not run.
Init ==
    /\ TesterInit
    /\ assetsDir = FALSE
    /\ iconFiles = [n \in IconNames |-> Null]
    /\ packageJson = [kind |-> "unreadable"]
    /\ mainJs = [kind |-> "unreadable"]
    /\ IconsIdle

\* Variant of AddResult: unshift in place of push.
AddResult_Prepend(results, test, passed) ==
    << [test |-> test, passed |-> passed] >> \o results

\* addResult(test, passed, details)
AddResult(results, test, passed) ==
    Append(results, [test |-> test, passed |-> passed])

(* --------------------------- discovery --------------------------------- *)
\* Variant of FindBackendExecutable: a miss returns null without recording
\* a result.
FindBackendExecutable_SilentMiss ==
    /\ pc = "sb_findExe"
    /\ calls' = Append(calls, "findBackendExecutable")
    /\ IF IsPackaged(runtime) /\ ~ResourcesPathDefined(runtime)
       THEN /\ executable' = Thrown
            /\ startRet' = Thrown
            /\ pc' = "rt_catch"
            /\ UNCHANGED << exeLog, testResults >>
       ELSE \E exists \in SUBSET Range(ExePaths(runtime, platform)) :
              LET paths == ExePaths(runtime, platform)
                  r == FindLoop(paths, exists, 1, << >>)
              IN  /\ exeLog' = r.checked
                  /\ executable' = IF r.hit = 0 THEN Null ELSE paths[r.hit]
                  /\ testResults' =
                        IF r.hit = 0 THEN testResults
                        ELSE AddResult(testResults, "Backend executable found", TRUE)
                  /\ pc' = IF r.hit # 0 THEN "sb_spawnExe" ELSE "sb_findScript"
                  /\ UNCHANGED startRet
    /\ UNCHANGED << envVars, iconVars, callerVars, entry, backendProcess, scriptLog, scriptInfo, spawns,
                    errPending, waitVars, response, epRequests, signals, report >>

\* findBackendExecutable, called by startBackend.  Under plain node the
\* packaged branch evaluates path.join(process.resourcesPath, ...) with an
\* undefined segment and throws before any candidate is checked; the throw
\* leaves startBackend and lands in the catch of runTests.
FindBackendExecutable ==
    /\ pc = "sb_findExe"
    /\ calls' = Append(calls, "findBackendExecutable")
    /\ IF IsPackaged(runtime) /\ ~ResourcesPathDefined(runtime)
       THEN /\ executable' = Thrown
            /\ startRet' = Thrown
            /\ pc' = "rt_catch"
            /\ UNCHANGED << exeLog, testResults >>
       ELSE \E exists \in SUBSET Range(ExePaths(runtime, platform)) :
              LET paths == ExePaths(runtime, platform)
                  r == FindLoop(paths, exists, 1, << >>)
              IN  /\ exeLog' = r.checked
                  /\ executable' = IF r.hit = 0 THEN Null ELSE paths[r.hit]
                  /\ testResults' =
                        AddResult(testResults, "Backend executable found", r.hit # 0)
                  /\ pc' = IF r.hit # 0 THEN "sb_spawnExe" ELSE "sb_findScript"
                  /\ UNCHANGED startRet
    /\ UNCHANGED << envVars, iconVars, callerVars, entry, backendProcess, scriptLog, scriptInfo, spawns,
                    errPending, waitVars, response, epRequests, signals, report >>

\* findBackendScript, called by startBackend; a null result makes
\* startBackend return false.
FindBackendScript ==
    /\ pc = "sb_findScript"
    /\ calls' = Append(calls, "findBackendScript")
    /\ \E exists \in SUBSET { AppScript(d) : d \in Range(ScriptDirs(runtime)) } :
         LET dirs == ScriptDirs(runtime)
             paths == [ i \in 1..Len(dirs) |-> AppScript(dirs[i]) ]
             r == FindLoop(paths, exists, 1, << >>)
         IN  /\ scriptLog' = r.checked
             /\ scriptInfo' = IF r.hit = 0 THEN Null
                              ELSE [ path |-> dirs[r.hit], script |-> paths[r.hit] ]
             /\ testResults' =
                   AddResult(testResults, "Backend script found", r.hit # 0)
             /\ IF r.hit # 0
                THEN pc' = "sb_spawnScript" /\ UNCHANGED startRet
                ELSE pc' = "rt_started" /\ startRet' = Returned(FALSE)
    /\ UNCHANGED << envVars, iconVars, callerVars, entry, backendProcess, exeLog, executable, spawns,
                    errPending, waitVars, response, epRequests, signals, report >>

(* ----------------------------- spawn ----------------------------------- *)
\* What the OS makes of a spawn: the child runs; spawn throws; or spawn
\* returns a child whose creation failed, which emits 'error' on the next
\* tick (ENOENT, EACCES).
SpawnOutcomes == {"ok", "throw", "error"}

\* setupBackendHandlers(type): registers the handlers, records the start.
SetupBackendHandlers(results, type) ==
    AddResult(results, "Start backend " \o type, TRUE)

\* try { this.backendProcess = spawn(executable, [], ...) ... return true }
\* catch { addResult('Start backend executable', false) } and fall through.
SpawnExecutable ==
    /\ pc = "sb_spawnExe"
    /\ \E o \in SpawnOutcomes :
         LET call == [ type |-> "executable", file |-> executable, args |-> << >>,
                       cwd |-> Null, outcome |-> o ]
         IN  /\ spawns' = Append(spawns, call)
             /\ calls' = Append(calls, "spawn")
             /\ IF o = "throw"
                THEN /\ testResults' =
                           AddResult(testResults, "Start backend executable", FALSE)
                     /\ pc' = "sb_findScript"
                     /\ UNCHANGED << backendProcess, errPending, startRet >>
                ELSE /\ backendProcess' = call
                     /\ testResults' = SetupBackendHandlers(testResults, "executable")
                     /\ errPending' = (o = "error")
                     /\ startRet' = Returned(TRUE)
                     /\ pc' = "rt_started"
    /\ UNCHANGED << envVars, iconVars, callerVars, entry, findVars, waitVars, response,
                    epRequests, signals, report >>

\* Variant of SpawnScript: the cwd option is left out.
SpawnScript_NoCwd ==
    /\ pc = "sb_spawnScript"
    /\ \E o \in SpawnOutcomes :
         LET call == [ type |-> "python script", file |-> Path("PATH", "python"),
                       args |-> << scriptInfo.script >>,
                       cwd |-> Null, outcome |-> o ]
         IN  /\ spawns' = Append(spawns, call)
             /\ calls' = Append(calls, "spawn")
             /\ IF o = "throw"
                THEN /\ testResults' =
                           AddResult(testResults, "Start backend script", FALSE)
                     /\ startRet' = Returned(FALSE)
                     /\ UNCHANGED << backendProcess, errPending >>
                ELSE /\ backendProcess' = call
                     /\ testResults' = SetupBackendHandlers(testResults, "python script")
                     /\ errPending' = (o = "error")
                     /\ startRet' = Returned(TRUE)
             /\ pc' = "rt_started"
    /\ UNCHANGED << envVars, iconVars, callerVars, entry, findVars, waitVars, response,
                    epRequests, signals, report >>

\* try { this.backendProcess = spawn('python', [script], {cwd: path}) ...
\* return true } catch { addResult('Start backend script', false) };
\* return false.
SpawnScript ==
    /\ pc = "sb_spawnScript"
    /\ \E o \in SpawnOutcomes :
         LET call == [ type |-> "python script", file |-> Path("PATH", "python"),
                       args |-> << scriptInfo.script >>,
                       cwd |-> Path(scriptInfo.path, ""), outcome |-> o ]
         IN  /\ spawns' = Append(spawns, call)
             /\ calls' = Append(calls, "spawn")
             /\ IF o = "throw"
                THEN /\ testResults' =
                           AddResult(testResults, "Start backend script", FALSE)
                     /\ startRet' = Returned(FALSE)
                     /\ UNCHANGED << backendProcess, errPending >>
                ELSE /\ backendProcess' = call
                     /\ testResults' = SetupBackendHandlers(testResults, "python script")
                     /\ errPending' = (o = "error")
                     /\ startRet' = Returned(TRUE)
             /\ pc' = "rt_started"
    /\ UNCHANGED << envVars, iconVars, callerVars, entry, findVars, waitVars, response,
                    epRequests, signals, report >>

\* The 'error' handler registered by setupBackendHandlers.  The event of a
\* failed creation is emitted on the next tick, so it runs at the first
\* point where runTests waits for I/O: right after the first health request
\* has been issued and before that request can settle.
ChildError ==
    /\ errPending
    /\ pc = "wait_await"
    /\ response = "none"
    /\ testResults' =
          AddResult(testResults, "Backend " \o backendProcess.type \o " error", FALSE)
    /\ errPending' = FALSE
    /\ UNCHANGED << envVars, iconVars, callerVars, entry, pc, backendProcess, calls, findVars, spawns,
                    startRet, waitVars, response, epRequests, signals, report >>

(* ---------------------------- requests --------------------------------- *)
\* How a makeRequest promise ends.  It resolves with the parsed body, here
\* classified by the property the caller reads (status, api_version,
\* timezone, judgment):
\*   "healthy"  the property is the string 'healthy'
\*   "truthy"   the property is some other truthy value
\*   "falsy"    the property is present but falsy ('', 0, false, null)
\*   "absent"   a JSON object without the property
\*   "raw"      the body is not JSON: resolve({raw, statusCode})
\*   "null"     the body is the JSON text null: reading a property throws
\* or it rejects ("neterror": the request's 'error' event), or neither event
\* ever fires ("hang": the request has no timeout).
Bodies == {"healthy", "truthy", "falsy", "absent", "raw", "null"}
Outcomes == Bodies \cup {"neterror", "hang"}
Settled(o) == o \notin {"none", "hang"}

\* await makeRequest(...) throws: the promise rejected.
Rejects(o) == o = "neterror"

\* Reading a property of the resolved value throws a TypeError.
PropertyReadThrows(o) == o = "null"

\* Variant of IsHealthy: any truthy status counts.
IsHealthy_AnyStatus(o) == o \in {"healthy", "truthy"}

\* response.status === 'healthy'
IsHealthy(o) == o = "healthy"

\* !!version.api_version, !!timezone.timezone, !!chart.judgment
IsTruthy(o) == o \in {"healthy", "truthy"}

\* The environment settles the request in flight.  A child 'error' event
\* queued on the next tick runs first.
MakeRequestSettles ==
    /\ pc \in {"wait_await", "ep_await"}
    /\ response = "none"
    /\ ~errPending
    /\ \E o \in Outcomes, d \in Delays :
         /\ response' = o
         /\ IF pc = "wait_await" /\ o # "hang"
            THEN elapsed' = elapsed + d
            ELSE d = 0 /\ UNCHANGED elapsed
    /\ UNCHANGED << envVars, iconVars, callerVars, entry, pc, backendProcess, testResults, calls,
                    findVars, spawns, errPending, startRet, timeout, lastProbeAt,
                    prevProbeAt, waitRet, countVars, epRequests, signals, report >>

(* ------------------------- waitForBackend ------------------------------ *)
\* Where control goes when the method the caller invoked returns.
AfterWait == IF entry = "runTests" THEN "rt_ready" ELSE "done"

\* Variant of LoopCondition: <= in place of <.
LoopCondition_Inclusive(e, t) == e <= t

\* while (Date.now() - startTime < timeout)
LoopCondition(e, t) == e < t

\* Loop head, condition true: issue the health request and await it.
WaitProbe ==
    /\ pc = "wait_loop"
    /\ LoopCondition(elapsed, timeout)
    /\ prevProbeAt' = lastProbeAt
    /\ lastProbeAt' = elapsed
    /\ probes' = Count(probes)
    /\ response' = "none"
    /\ pc' = "wait_await"
    /\ UNCHANGED << envVars, iconVars, callerVars, entry, backendProcess, testResults, calls, findVars,
                    spawns, errPending, startRet, timeout, elapsed, waitRet,
                    sleeps, epRequests, signals, report >>

\* Loop head, condition false: record the timeout and return false.
WaitTimeout ==
    /\ pc = "wait_loop"
    /\ ~LoopCondition(elapsed, timeout)
    /\ testResults' = AddResult(testResults, "Backend health check", FALSE)
    /\ waitRet' = Returned(FALSE)
    /\ elapsed' = 0 /\ lastProbeAt' = -1 /\ prevProbeAt' = -1
    /\ pc' = AfterWait
    /\ UNCHANGED << envVars, iconVars, callerVars, entry, backendProcess, calls, findVars, spawns,
                    errPending, startRet, timeout, countVars, response,
                    epRequests, signals, report >>

\* Variant of WaitResponse: a 'healthy' answer is accepted only after at
\* least one sleep.
WaitResponse_NeedsSleep ==
    /\ pc = "wait_await"
    /\ Settled(response)
    /\ response' = "none"
    /\ IF ~Rejects(response) /\ ~PropertyReadThrows(response) /\ IsHealthy(response)
          /\ sleeps > 0
       THEN /\ testResults' = AddResult(testResults, "Backend health check", TRUE)
            /\ waitRet' = Returned(TRUE)
            /\ elapsed' = 0 /\ lastProbeAt' = -1 /\ prevProbeAt' = -1
            /\ pc' = AfterWait
       ELSE /\ pc' = "wait_sleep"
            /\ UNCHANGED << testResults, waitRet, elapsed, lastProbeAt, prevProbeAt >>
    /\ UNCHANGED << envVars, iconVars, callerVars, entry, backendProcess, calls, findVars, spawns,
                    errPending, startRet, timeout, countVars, epRequests,
                    signals, report >>

\* The request settled: a 'healthy' status records success and returns
\* true; anything else, a rejection and a throwing property read included,
\* goes on to the sleep.
WaitResponse ==
    /\ pc = "wait_await"
    /\ Settled(response)
    /\ response' = "none"
    /\ IF ~Rejects(response) /\ ~PropertyReadThrows(response) /\ IsHealthy(response)
       THEN /\ testResults' = AddResult(testResults, "Backend health check", TRUE)
            /\ waitRet' = Returned(TRUE)
            /\ elapsed' = 0 /\ lastProbeAt' = -1 /\ prevProbeAt' = -1
            /\ pc' = AfterWait
       ELSE /\ pc' = "wait_sleep"
            /\ UNCHANGED << testResults, waitRet, elapsed, lastProbeAt, prevProbeAt >>
    /\ UNCHANGED << envVars, iconVars, callerVars, entry, backendProcess, calls, findVars, spawns,
                    errPending, startRet, timeout, countVars, epRequests,
                    signals, report >>

\* await this.sleep(1000): the timer fires after at least SleepMs.
Sleep ==
    /\ pc = "wait_sleep"
    /\ \E late \in Delays : elapsed' = elapsed + SleepMs + late
    /\ sleeps' = Count(sleeps)
    /\ pc' = "wait_loop"
    /\ UNCHANGED << envVars, iconVars, callerVars, entry, backendProcess, testResults, calls, findVars,
                    spawns, errPending, startRet, timeout, lastProbeAt,
                    prevProbeAt, probes, response, waitRet, epRequests, signals,
                    report >>

(* -------------------------- testEndpoints ------------------------------ *)
Endpoints ==
    << [ path |-> "/api/health",          method |-> "GET",  test |-> "Health endpoint" ],
       [ path |-> "/api/version",         method |-> "GET",  test |-> "Version endpoint" ],
       [ path |-> "/api/get-timezone",    method |-> "POST", test |-> "Timezone endpoint" ],
       [ path |-> "/api/calculate-chart", method |-> "POST", test |-> "Chart calculation" ] >>

\* Variant of EndpointPassed: presence of the field instead of its truth.
EndpointPassed_Presence(i, o) ==
    IF Rejects(o) \/ PropertyReadThrows(o) THEN FALSE
    ELSE IF i = 1 THEN IsHealthy(o)
    ELSE o \in {"healthy", "truthy", "falsy"}

\* The passed flag each try/catch block of testEndpoints records.
EndpointPassed(i, o) ==
    IF Rejects(o) \/ PropertyReadThrows(o) THEN FALSE
    ELSE IF i = 1 THEN IsHealthy(o)
    ELSE IsTruthy(o)

\* The next block of testEndpoints issues its request.
EndpointRequest ==
    /\ pc = "ep_issue"
    /\ epRequests' = Append(epRequests,
          [ path |-> Endpoints[Len(epRequests) + 1].path,
            method |-> Endpoints[Len(epRequests) + 1].method ])
    /\ response' = "none"
    /\ pc' = "ep_await"
    /\ UNCHANGED << envVars, iconVars, callerVars, entry, backendProcess, testResults, calls, findVars,
                    spawns, errPending, startRet, waitVars, signals, report >>

\* Variant of EndpointResult: a failed block ends testEndpoints.
EndpointResult_AbortOnFailure ==
    /\ pc = "ep_await"
    /\ Settled(response)
    /\ testResults' = AddResult(testResults, Endpoints[Len(epRequests)].test,
                                EndpointPassed(Len(epRequests), response))
    /\ response' = "none"
    /\ pc' = IF Len(epRequests) = Len(Endpoints)
                \/ ~EndpointPassed(Len(epRequests), response)
             THEN "rt_stop" ELSE "ep_issue"
    /\ UNCHANGED << envVars, iconVars, callerVars, entry, backendProcess, calls, findVars, spawns,
                    errPending, startRet, waitVars, epRequests, signals, report >>

\* The request settled: the block records its result, and testEndpoints
\* goes on to the next block or returns.
EndpointResult ==
    /\ pc = "ep_await"
    /\ Settled(response)
    /\ testResults' = AddResult(testResults, Endpoints[Len(epRequests)].test,
                                EndpointPassed(Len(epRequests), response))
    /\ response' = "none"
    /\ pc' = IF Len(epRequests) = Len(Endpoints) THEN "rt_stop" ELSE "ep_issue"
    /\ UNCHANGED << envVars, iconVars, callerVars, entry, backendProcess, calls, findVars, spawns,
                    errPending, startRet, waitVars, epRequests, signals, report >>

(* --------------------------- stopBackend ------------------------------- *)
StopPcs == {"rt_stop_notready", "rt_stop", "rt_stop_catch"}

\* Variant of StopBackend: the handle is dropped without a signal.
StopBackend_NoSignal ==
    /\ pc \in StopPcs
    /\ calls' = Append(calls, "stopBackend")
    /\ IF backendProcess # Null
       THEN /\ backendProcess' = Null
            /\ testResults' = AddResult(testResults, "Stop backend", TRUE)
            /\ UNCHANGED signals
       ELSE UNCHANGED << signals, backendProcess, testResults >>
    /\ pc' = "rt_report"
    /\ UNCHANGED << envVars, iconVars, callerVars, entry, findVars, spawns, errPending, startRet,
                    waitVars, response, epRequests, report >>

\* On win32 taskkill is spawned, and SIGKILL is sent if that spawn throws;
\* elsewhere SIGTERM is sent.
StopBackend ==
    /\ pc \in StopPcs
    /\ calls' = Append(calls, "stopBackend")
    /\ IF backendProcess # Null
       THEN /\ \E taskkillThrows \in BOOLEAN :
                  /\ platform # "win32" => ~taskkillThrows
                  /\ signals' = Append(signals,
                        IF platform = "win32"
                        THEN IF taskkillThrows THEN "SIGKILL" ELSE "taskkill"
                        ELSE "SIGTERM")
            /\ backendProcess' = Null
            /\ testResults' = AddResult(testResults, "Stop backend", TRUE)
       ELSE UNCHANGED << signals, backendProcess, testResults >>
    /\ pc' = "rt_report"
    /\ UNCHANGED << envVars, iconVars, callerVars, entry, findVars, spawns, errPending, startRet,
                    waitVars, response, epRequests, report >>

\* Variant of CallStopBackend: the if (this.backendProcess) guard is missing
\* around the bookkeeping.
CallStopBackend_Unguarded ==
    /\ pc \in {"idle", "done"}
    /\ extraStops < MaxExtraStops
    /\ extraStops' = extraStops + 1
    /\ entry' = IF pc = "idle" THEN "stopBackend" ELSE entry
    /\ IF backendProcess # Null
       THEN \E taskkillThrows \in BOOLEAN :
               /\ platform # "win32" => ~taskkillThrows
               /\ signals' = Append(signals,
                     IF platform = "win32"
                     THEN IF taskkillThrows THEN "SIGKILL" ELSE "taskkill"
                     ELSE "SIGTERM")
       ELSE UNCHANGED signals
    /\ backendProcess' = Null
    /\ testResults' = AddResult(testResults, "Stop backend", TRUE)
    /\ pc' = "done"
    /\ UNCHANGED << envVars, iconVars, exitCode, calls, findVars, spawns, errPending,
                    startRet, waitVars, response, epRequests, report >>

\* The caller itself invokes stopBackend, on a fresh tester or after the
\* method it had invoked has returned.
CallStopBackend ==
    /\ pc \in {"idle", "done"}
    /\ extraStops < MaxExtraStops
    /\ extraStops' = extraStops + 1
    /\ entry' = IF pc = "idle" THEN "stopBackend" ELSE entry
    /\ IF backendProcess # Null
       THEN /\ \E taskkillThrows \in BOOLEAN :
                  /\ platform # "win32" => ~taskkillThrows
                  /\ signals' = Append(signals,
                        IF platform = "win32"
                        THEN IF taskkillThrows THEN "SIGKILL" ELSE "taskkill"
                        ELSE "SIGTERM")
            /\ backendProcess' = Null
            /\ testResults' = AddResult(testResults, "Stop backend", TRUE)
       ELSE UNCHANGED << signals, backendProcess, testResults >>
    /\ pc' = "done"
    /\ UNCHANGED << envVars, iconVars, exitCode, calls, findVars, spawns, errPending,
                    startRet, waitVars, response, epRequests, report >>

(* -------------------------- generateReport ----------------------------- *)
\* Variant of GenerateReport: success takes the "most tests passed"
\* threshold of the summary message.
GenerateReport_MostPassed(results) ==
    LET passed == Cardinality({ i \in 1..Len(results) : results[i].passed })
        total == Len(results)
    IN  [ passed |-> passed, total |-> total,
          success |-> (passed * 10 > total * 8) ]

GenerateReport(results) ==
    LET passed == Cardinality({ i \in 1..Len(results) : results[i].passed })
        total == Len(results)
    IN  [ passed |-> passed, total |-> total, success |-> (passed = total) ]

(* ------------------------------ runTests ------------------------------- *)
\* The caller invokes runTests, which calls startBackend.
RunTests ==
    /\ pc = "idle"
    /\ entry' = "runTests"
    /\ calls' = << "runTests", "startBackend" >>
    /\ pc' = "sb_findExe"
    /\ UNCHANGED << envVars, iconVars, callerVars, backendProcess, testResults, findVars, spawns,
                    errPending, startRet, waitVars, response, epRequests,
                    signals, report >>

\* Variant of RunTestsStarted: the value returned by startBackend is not
\* looked at.
RunTestsStarted_IgnoresFailure ==
    /\ pc = "rt_started"
    /\ calls' = Append(calls, "waitForBackend")
    /\ timeout' = DefaultTimeout
    /\ elapsed' = 0
    /\ pc' = "wait_loop"
    /\ UNCHANGED << envVars, iconVars, callerVars, entry, backendProcess, testResults, findVars, spawns,
                    errPending, startRet, lastProbeAt, prevProbeAt, countVars,
                    response, waitRet, epRequests, signals, report >>

\* startBackend returned: on false report at once, else call
\* waitForBackend with the default timeout.
RunTestsStarted ==
    /\ pc = "rt_started"
    /\ IF startRet = Returned(FALSE)
       THEN /\ calls' = Append(calls, "generateReport")
            /\ report' = GenerateReport(testResults)
            /\ pc' = "done"
            /\ UNCHANGED << timeout, elapsed >>
       ELSE /\ calls' = Append(calls, "waitForBackend")
            /\ timeout' = DefaultTimeout
            /\ elapsed' = 0
            /\ pc' = "wait_loop"
            /\ UNCHANGED report
    /\ UNCHANGED << envVars, iconVars, callerVars, entry, backendProcess, testResults, findVars, spawns,
                    errPending, startRet, lastProbeAt, prevProbeAt, countVars,
                    response, waitRet, epRequests, signals >>

\* Variant of RunTestsReady: the not-ready branch reports without stopping.
RunTestsReady_SkipStop ==
    /\ pc = "rt_ready"
    /\ IF waitRet = Returned(FALSE)
       THEN pc' = "rt_report" /\ UNCHANGED calls
       ELSE pc' = "ep_issue" /\ calls' = Append(calls, "testEndpoints")
    /\ UNCHANGED << envVars, iconVars, callerVars, entry, backendProcess, testResults, findVars, spawns,
                    errPending, startRet, waitVars, response, epRequests,
                    signals, report >>

\* Variant of RunTestsReady: testEndpoints is called whatever
\* waitForBackend returned.
RunTestsReady_ProbesAnyway ==
    /\ pc = "rt_ready"
    /\ pc' = "ep_issue"
    /\ calls' = Append(calls, "testEndpoints")
    /\ UNCHANGED << envVars, iconVars, callerVars, entry, backendProcess, testResults, findVars, spawns,
                    errPending, startRet, waitVars, response, epRequests,
                    signals, report >>

\* waitForBackend returned: on false go to stopBackend, else call
\* testEndpoints.
RunTestsReady ==
    /\ pc = "rt_ready"
    /\ IF waitRet = Returned(FALSE)
       THEN pc' = "rt_stop_notready" /\ UNCHANGED calls
       ELSE pc' = "ep_issue" /\ calls' = Append(calls, "testEndpoints")
    /\ UNCHANGED << envVars, iconVars, callerVars, entry, backendProcess, testResults, findVars, spawns,
                    errPending, startRet, waitVars, response, epRequests,
                    signals, report >>

\* Variant of RunTestsCatch: the catch block records no result.
RunTestsCatch_NoResult ==
    /\ pc = "rt_catch"
    /\ testResults' = testResults
    /\ pc' = "rt_stop_catch"
    /\ UNCHANGED << envVars, iconVars, callerVars, entry, backendProcess, calls, findVars, spawns,
                    errPending, startRet, waitVars, response, epRequests,
                    signals, report >>

\* catch (error): record 'Test execution' as failed, then stopBackend.
RunTestsCatch ==
    /\ pc = "rt_catch"
    /\ testResults' = AddResult(testResults, "Test execution", FALSE)
    /\ pc' = "rt_stop_catch"
    /\ UNCHANGED << envVars, iconVars, callerVars, entry, backendProcess, calls, findVars, spawns,
                    errPending, startRet, waitVars, response, epRequests,
                    signals, report >>

\* Variant of RunTestsReport: the tally is taken before the last result of
\* the run has been recorded.
RunTestsReport_StaleSnapshot ==
    /\ pc = "rt_report"
    /\ calls' = Append(calls, "generateReport")
    /\ report' = GenerateReport(SubSeq(testResults, 1, Len(testResults) - 1))
    /\ pc' = "done"
    /\ UNCHANGED << envVars, iconVars, callerVars, entry, backendProcess, testResults, findVars, spawns,
                    errPending, startRet, waitVars, response, epRequests, signals >>

\* return this.generateReport() after stopBackend.
RunTestsReport ==
    /\ pc = "rt_report"
    /\ calls' = Append(calls, "generateReport")
    /\ report' = GenerateReport(testResults)
    /\ pc' = "done"
    /\ UNCHANGED << envVars, iconVars, callerVars, entry, backendProcess, testResults, findVars, spawns,
                    errPending, startRet, waitVars, response, epRequests, signals >>

\* The caller invokes waitForBackend(t) on a fresh tester.
WaitForBackend ==
    /\ pc = "idle"
    /\ \E t \in TimeoutInputs : timeout' = t
    /\ entry' = "waitForBackend"
    /\ calls' = << "waitForBackend" >>
    /\ elapsed' = 0
    /\ pc' = "wait_loop"
    /\ UNCHANGED << envVars, iconVars, callerVars, backendProcess, testResults, findVars, spawns,
                    errPending, startRet, lastProbeAt, prevProbeAt, countVars,
                    response, waitRet, epRequests, signals, report >>

(* -------------------------------- main --------------------------------- *)
\* Variant of MainExit: process.exit(result ? 0 : 1) on the summary object.
MainExit_ResultTruthy ==
    /\ pc = "done"
    /\ entry = "runTests"
    /\ extraStops = 0
    /\ exitCode' = 0
    /\ pc' = "exited"
    /\ UNCHANGED << envVars, iconVars, extraStops, entry, backendProcess, testResults,
                    calls, findVars, spawns, errPending, startRet, waitVars,
                    response, epRequests, signals, report >>

\* The script run directly: runTests().then(result =>
\* process.exit(result.success ? 0 : 1)).catch(() => process.exit(1)).
MainExit ==
    /\ pc = "done"
    /\ entry = "runTests"
    /\ extraStops = 0
    /\ exitCode' = IF report # Null
                   THEN IF report.success THEN 0 ELSE 1
                   ELSE 1
    /\ pc' = "exited"
    /\ UNCHANGED << envVars, iconVars, extraStops, entry, backendProcess, testResults,
                    calls, findVars, spawns, errPending, startRet, waitVars,
                    response, epRequests, signals, report >>

\* The caller itself invokes generateReport, on a fresh tester or after a
\* method other than runTests has returned.
CallGenerateReport ==
    /\ pc \in {"idle", "done"}
    /\ report = Null
    /\ entry' = IF pc = "idle" THEN "generateReport" ELSE entry
    /\ report' = GenerateReport(testResults)
    /\ pc' = "done"
    /\ UNCHANGED << envVars, iconVars, callerVars, backendProcess, testResults, calls,
                    findVars, spawns, errPending, startRet, waitVars, response,
                    epRequests, signals >>

(* --------------------------- validateIcons ----------------------------- *)
\* The icon validation script, run under plain node in a directory whose
\* assets, package.json and main.js are any of the layouts above; icon
\* files exist only inside an existing assets directory.
IconInit ==
    /\ TesterInit
    /\ runtime = "node" /\ platform = "posix"
    /\ assetsDir \in BOOLEAN
    /\ iconFiles \in IconLayouts
    /\ ~assetsDir => iconFiles = [n \in IconNames |-> Null]
    /\ packageJson \in PackageJsons
    /\ mainJs \in MainJss
    /\ IconsIdle

\* validateIcons up to the assets directory check: a missing directory
\* returns false at once.
ValidateIcons ==
    /\ vpc = "idle"
    /\ allValid' = TRUE
    /\ checksRun' = << "assets" >>
    /\ IF ~assetsDir
       THEN /\ errorsLogged' = {"assets"}
            /\ validateRet' = Returned(FALSE)
            /\ vpc' = "returned"
            /\ UNCHANGED iconIndex
       ELSE /\ iconIndex' = 1
            /\ vpc' = "icons"
            /\ UNCHANGED << errorsLogged, validateRet >>
    /\ UNCHANGED << envVars, testerVars, iconEnvVars, warnings >>

\* Variant of CheckIcon: an icon under its minimum size fails the
\* validation.
CheckIcon_SmallIsInvalid ==
    /\ vpc = "icons"
    /\ LET cfg == requiredIcons[iconIndex]
           file == iconFiles[cfg.filename]
       IN  /\ IF file = Null
              THEN /\ errorsLogged' = errorsLogged \cup {cfg.filename}
                   /\ allValid' = FALSE
                   /\ UNCHANGED warnings
              ELSE IF file.size < cfg.minSize
              THEN /\ warnings' = warnings \cup {cfg.filename}
                   /\ allValid' = FALSE
                   /\ UNCHANGED errorsLogged
              ELSE UNCHANGED << errorsLogged, warnings, allValid >>
           /\ checksRun' = Append(checksRun, cfg.filename)
    /\ IF iconIndex < Len(requiredIcons)
       THEN iconIndex' = iconIndex + 1 /\ UNCHANGED vpc
       ELSE vpc' = "package" /\ UNCHANGED iconIndex
    /\ UNCHANGED << envVars, testerVars, iconEnvVars, validateRet >>

\* One iteration of the forEach over requiredIcons.
CheckIcon ==
    /\ vpc = "icons"
    /\ LET cfg == requiredIcons[iconIndex]
           file == iconFiles[cfg.filename]
       IN  /\ IF file = Null
              THEN /\ errorsLogged' = errorsLogged \cup {cfg.filename}
                   /\ allValid' = FALSE
                   /\ UNCHANGED warnings
              ELSE IF file.size < cfg.minSize
              THEN /\ warnings' = warnings \cup {cfg.filename}
                   /\ UNCHANGED << errorsLogged, allValid >>
              ELSE UNCHANGED << errorsLogged, warnings, allValid >>
           /\ checksRun' = Append(checksRun, cfg.filename)
    /\ IF iconIndex < Len(requiredIcons)
       THEN iconIndex' = iconIndex + 1 /\ UNCHANGED vpc
       ELSE vpc' = "package" /\ UNCHANGED iconIndex
    /\ UNCHANGED << envVars, testerVars, iconEnvVars, validateRet >>

\* The try block on package.json throws when readFileSync throws, when
\* JSON.parse throws, and when the parsed value is null (the read of
\* packageJson.build).
PackageJsonThrows(p) == p.kind \in {"unreadable", "malformed", "null"}

\* The package.json check: a throw is caught and clears allValid; an
\* absent icon entry only warns.
CheckPackageJson ==
    /\ vpc = "package"
    /\ checksRun' = Append(checksRun, "package.json")
    /\ IF PackageJsonThrows(packageJson)
       THEN /\ errorsLogged' = errorsLogged \cup {"package.json"}
            /\ allValid' = FALSE
            /\ UNCHANGED warnings
       ELSE /\ warnings' = warnings \cup
                  { "build." \o k : k \in BuildKeys \ packageJson.build }
            /\ UNCHANGED << errorsLogged, allValid >>
    /\ vpc' = "main"
    /\ UNCHANGED << envVars, testerVars, iconEnvVars, iconIndex, validateRet >>

\* The main.js check: a throw of readFileSync is caught and clears
\* allValid; missing substrings only warn.
CheckMainJs ==
    /\ vpc = "main"
    /\ checksRun' = Append(checksRun, "main.js")
    /\ IF mainJs.kind = "unreadable"
       THEN /\ errorsLogged' = errorsLogged \cup {"main.js"}
            /\ allValid' = FALSE
            /\ UNCHANGED warnings
       ELSE /\ warnings' = warnings \cup
                  (IF {"icon:", "assets"} \subseteq mainJs.includes
                   THEN IF "process.platform" \in mainJs.includes
                        THEN {}
                        ELSE {"main.js platform"}
                   ELSE {"main.js icon"})
            /\ UNCHANGED << errorsLogged, allValid >>
    /\ vpc' = "summary"
    /\ UNCHANGED << envVars, testerVars, iconEnvVars, iconIndex, validateRet >>

\* The final summary: return allValid.
ValidateSummary ==
    /\ vpc = "summary"
    /\ checksRun' = Append(checksRun, "summary")
    /\ validateRet' = Returned(allValid)
    /\ vpc' = "returned"
    /\ UNCHANGED << envVars, testerVars, iconEnvVars, iconIndex, allValid,
                    errorsLogged, warnings >>

IconNext ==
    \/ ValidateIcons
    \/ CheckIcon
    \/ CheckPackageJson
    \/ CheckMainJs
    \/ ValidateSummary

IconSpec == IconInit /\ [][IconNext]_vars

Next ==
    \/ RunTests
    \/ FindBackendExecutable
    \/ SpawnExecutable
    \/ FindBackendScript
    \/ SpawnScript
    \/ ChildError
    \/ RunTestsStarted
    \/ WaitForBackend
    \/ WaitProbe
    \/ WaitTimeout
    \/ MakeRequestSettles
    \/ WaitResponse
    \/ Sleep
    \/ RunTestsReady
    \/ EndpointRequest
    \/ EndpointResult
    \/ RunTestsCatch
    \/ StopBackend
    \/ RunTestsReport
    \/ CallStopBackend
    \/ CallGenerateReport
    \/ MainExit

Spec == Init /\ [][Next]_vars

\* Every step of the program and every pending timer or settled promise is
\* eventually run by the event loop; a request that hangs enables nothing.
FairSpec == Spec /\ WF_vars(Next)

TypeOK ==
    /\ runtime \in Runtimes /\ platform \in Platforms
    /\ elapsed \in Nat /\ timeout \in Int
    /\ response \in Outcomes \cup {"none"}
    /\ errPending \in BOOLEAN
    /\ Len(epRequests) <= Len(Endpoints)

(* ======================================================================= *)
(*                               Properties                                *)
(* ======================================================================= *)
Last(s) == s[Len(s)]
Called(m) == m \in Range(calls)
ResultsNamed(test) == SelectSeq(testResults, LAMBDA r : r.test = test)
StartBackendReturned == startRet \in {Returned(TRUE), Returned(FALSE)}

\* C1 (as stated): no run of runTests reaches the report without having
\* passed through stopBackend first, whichever step failed.
C1_StopAlwaysBeforeReport ==
    (entry = "runTests" /\ report # Null) => Called("stopBackend")

\* C1 (amended): a run of runTests in which startBackend did not return
\* false calls stopBackend and, directly after it, generateReport; a run in
\* which startBackend returned false reports without calling stopBackend.
C1_StopBeforeReportUnlessStartFailed ==
    (entry = "runTests" /\ report # Null) =>
        IF startRet = Returned(FALSE)
        THEN ~Called("stopBackend")
        ELSE /\ Len(calls) >= 2
             /\ calls[Len(calls)] = "generateReport"
             /\ calls[Len(calls) - 1] = "stopBackend"
             /\ Len(SelectSeq(calls, LAMBDA m : m = "stopBackend")) = 1

\* A run whose wait-until-healthy step failed has stopped and reported.
C1_Witness ==
    /\ entry = "runTests" /\ report # Null
    /\ waitRet = Returned(FALSE) /\ Called("stopBackend")

\* The interpreter invocation startBackend makes for a located script.
IsScriptSpawn(call) ==
    /\ call.type = "python script"
    /\ call.file = Path("PATH", "python")
    /\ call.args = << scriptInfo.script >>
    /\ call.cwd = Path(scriptInfo.path, "")
    /\ scriptInfo.script = AppScript(scriptInfo.path)

\* C2 (as stated): when startBackend returns, if no executable was found
\* and a script was, the interpreter was spawned on the script with the
\* script's directory as cwd and startBackend returned true; if neither was
\* found it returned false, nothing was spawned and backendProcess is null.
C2_ScriptFallbackReturnsTrue ==
    (pc = "rt_started" /\ executable = Null) =>
        IF scriptInfo # Null
        THEN /\ Len(spawns) = 1 /\ IsScriptSpawn(spawns[1])
             /\ startRet = Returned(TRUE)
        ELSE /\ startRet = Returned(FALSE)
             /\ spawns = << >> /\ backendProcess = Null

\* C2 (amended): as stated, except that startBackend returns true only if
\* the spawn call does not throw; when it throws, a failed 'Start backend
\* script' result is recorded, backendProcess stays null and startBackend
\* returns false.
C2_ScriptFallback ==
    (pc = "rt_started" /\ executable = Null) =>
        IF scriptInfo # Null
        THEN /\ Len(spawns) = 1 /\ IsScriptSpawn(spawns[1])
             /\ IF spawns[1].outcome = "throw"
                THEN /\ startRet = Returned(FALSE)
                     /\ backendProcess = Null
                     /\ Last(testResults) = [test |-> "Start backend script", passed |-> FALSE]
                ELSE /\ startRet = Returned(TRUE)
                     /\ backendProcess = spawns[1]
        ELSE /\ startRet = Returned(FALSE)
             /\ spawns = << >> /\ backendProcess = Null

\* startBackend returned true through the script fallback.
C2_Witness ==
    /\ pc = "rt_started" /\ executable = Null /\ scriptInfo # Null
    /\ startRet = Returned(TRUE) /\ backendProcess # Null

\* C3: once a located executable could not be created, by a throwing spawn
\* or by a child 'error' event, the run is never waiting on health without
\* findBackendScript having been called.
C3_FailedExecutableFallsBack ==
    (/\ pc \in {"wait_loop", "wait_await", "wait_sleep"}
     /\ \E i \in 1..Len(spawns) :
           spawns[i].type = "executable" /\ spawns[i].outcome # "ok")
    => Called("findBackendScript")

\* The existsSync calls in log are the candidates of paths in list order up
\* to and including the first one that exists, and hit is that candidate,
\* or Null when every candidate was checked and none exists.
FirstExisting(paths, log, hit) ==
    /\ Len(log) <= Len(paths)
    /\ \A k \in 1..Len(log) : log[k].path = paths[k]
    /\ \A k \in 1..(Len(log) - 1) : ~log[k].exists
    /\ IF hit = Null
       THEN Len(log) = Len(paths) /\ \A k \in 1..Len(log) : ~log[k].exists
       ELSE log # << >> /\ Last(log).exists /\ Last(log).path = hit

ScriptPaths == [ i \in 1..Len(ScriptDirs(runtime)) |-> AppScript(ScriptDirs(runtime)[i]) ]

\* C4: findBackendExecutable and findBackendScript return the first
\* candidate, in list order, that exists, and none exactly when no
\* candidate exists; no candidate after the first hit is checked; each call
\* records exactly one 'found' result, passed iff a path was returned.
C4_FirstExistingCandidate ==
    /\ executable \notin {Pending, Thrown} =>
          /\ FirstExisting(ExePaths(runtime, platform), exeLog, executable)
          /\ ResultsNamed("Backend executable found") =
                << [test |-> "Backend executable found", passed |-> executable # Null] >>
    /\ scriptInfo # Pending =>
          /\ FirstExisting(ScriptPaths, scriptLog,
                           IF scriptInfo = Null THEN Null ELSE scriptInfo.script)
          /\ scriptInfo # Null => scriptInfo.script = AppScript(scriptInfo.path)
          /\ ResultsNamed("Backend script found") =
                << [test |-> "Backend script found", passed |-> scriptInfo # Null] >>

\* The first existing executable is neither the first nor the last candidate.
C4_Witness ==
    /\ executable \notin {Pending, Thrown, Null}
    /\ Len(exeLog) >= 2
    /\ Len(exeLog) < Len(ExePaths(runtime, platform))

\* C5: every health request of waitForBackend starts before the timeout has
\* elapsed and at least one full sleep after the start of the previous one;
\* with a timeout <= 0 no request is issued and the failure is recorded.
C5_ProbeSpacingAndCutoff ==
    /\ pc = "wait_await" =>
          /\ lastProbeAt >= 0 /\ lastProbeAt < timeout
          /\ prevProbeAt >= 0 => lastProbeAt - prevProbeAt >= SleepMs
    /\ (entry = "waitForBackend" /\ timeout <= 0) =>
          /\ pc \in {"wait_loop", "done"}
          /\ pc = "done" =>
                /\ waitRet = Returned(FALSE)
                /\ testResults = << [test |-> "Backend health check", passed |-> FALSE] >>

\* A second health request is in flight exactly one sleep after the first.
C5_Witness ==
    /\ pc = "wait_await" /\ prevProbeAt >= 0
    /\ lastProbeAt - prevProbeAt = SleepMs

WaitPcs == {"wait_loop", "wait_await", "wait_sleep"}

\* C6: a call of waitForBackend with the default timeout always returns,
\* also when the health endpoint never responds: no single health request
\* blocks it forever.
C6_DefaultWaitReturns ==
    (pc \in WaitPcs /\ timeout = DefaultTimeout) ~> (pc \notin WaitPcs)

\* C7: when waitForBackend times out in runTests, a failed 'Backend health
\* check' result is recorded, stopBackend signals the spawned process,
\* testEndpoints is not run, and the run ends with the report.
C7_TimeoutStopsThenReports ==
    (entry = "runTests" /\ waitRet = Returned(FALSE)) =>
        /\ pc \in {"rt_ready", "rt_stop_notready", "rt_report", "done", "exited"}
        /\ ResultsNamed("Backend health check") =
              << [test |-> "Backend health check", passed |-> FALSE] >>
        /\ ~Called("testEndpoints") /\ epRequests = << >>
        /\ pc \in {"rt_ready", "rt_stop_notready"} =>
              backendProcess # Null /\ signals = << >>
        /\ pc \in {"rt_report", "done", "exited"} =>
              /\ Called("stopBackend")
              /\ Len(signals) = 1
              /\ signals[1] \in {"SIGTERM", "taskkill", "SIGKILL"}
              /\ backendProcess = Null
        /\ (pc \in {"done", "exited"}) <=> (report # Null)

\* A run that timed out has signalled the process and reported.
C7_Witness ==
    /\ entry = "runTests" /\ waitRet = Returned(FALSE)
    /\ report # Null /\ Len(signals) = 1

\* C8: in waitForBackend a health request that rejects, or resolves with
\* anything but a 'healthy' status, records no result and leads to the sleep
\* and from there back to the loop head; the wait returns only on a
\* 'healthy' response (true) or at the loop head with the timeout elapsed
\* (false), and never leaves by an exception.
C8_OnlyHealthyOrTimeoutEndsWait ==
    [][ /\ (pc = "wait_await" /\ Settled(response) /\ response # "healthy") =>
              /\ pc' \in {"wait_await", "wait_sleep"}
              /\ testResults' = testResults
              /\ waitRet' = Pending
        /\ pc = "wait_sleep" => pc' \in {"wait_sleep", "wait_loop"}
        /\ (pc \in WaitPcs /\ pc' \notin WaitPcs) =>
              \/ /\ waitRet' = Returned(TRUE)
                 /\ pc = "wait_await" /\ response = "healthy"
              \/ /\ waitRet' = Returned(FALSE)
                 /\ pc = "wait_loop" /\ elapsed >= timeout
      ]_vars

\* A health request failed with a network error after an earlier request
\* had already not ended the wait.
C8_Witness ==
    pc = "wait_await" /\ response = "neterror" /\ prevProbeAt >= 0

EndpointTests == { Endpoints[i].test : i \in 1..Len(Endpoints) }
EndpointResults == SelectSeq(testResults, LAMBDA r : r.test \in EndpointTests)

\* C9: testEndpoints issues the four requests once each and in order and
\* records one result per request in the same order, whatever the outcome of
\* each; when it has returned, four requests and four results were made.
C9_FourRequestsFourResults ==
    /\ Len(epRequests) <= Len(Endpoints)
    /\ \A i \in 1..Len(epRequests) :
          /\ epRequests[i].path = Endpoints[i].path
          /\ epRequests[i].method = Endpoints[i].method
    /\ Len(EndpointResults) =
          IF pc = "ep_await" THEN Len(epRequests) - 1 ELSE Len(epRequests)
    /\ \A i \in 1..Len(EndpointResults) : EndpointResults[i].test = Endpoints[i].test
    /\ (Called("testEndpoints") /\ pc \notin {"ep_issue", "ep_await"}) =>
          Len(epRequests) = Len(Endpoints)
    /\ ~Called("testEndpoints") => epRequests = << >>

\* testEndpoints returned after the first and third endpoint failed and the
\* second and fourth passed.
C9_Witness ==
    /\ pc = "rt_stop"
    /\ Len(EndpointResults) = 4
    /\ ~EndpointResults[1].passed /\ EndpointResults[2].passed
    /\ ~EndpointResults[3].passed /\ EndpointResults[4].passed

\* The step in which a block of testEndpoints records its result.
RecordsEndpointResult == pc = "ep_await" /\ Settled(response) /\ pc' # "ep_await"

\* C10 (as stated): an endpoint result passes exactly when the response
\* carries the expected field (health: status equal to 'healthy'; version,
\* timezone, chart: the field is present); a network error or an
\* unparseable body is recorded as failed.
C10_PassedIffFieldPresent ==
    [][ RecordsEndpointResult =>
          /\ Last(testResults').test = Endpoints[Len(epRequests)].test
          /\ Last(testResults').passed =
                IF Len(epRequests) = 1
                THEN response = "healthy"
                ELSE response \in {"healthy", "truthy", "falsy"}
          /\ response \in {"neterror", "raw"} => ~Last(testResults').passed
      ]_vars

\* C10 (amended): an endpoint result passes exactly when the response
\* carries the expected field with a truthy value (health: status equal to
\* 'healthy'); a field that is absent or present but falsy, a network
\* error, an unparseable body and a JSON null body are recorded as failed.
C10_PassedIffFieldTruthy ==
    [][ RecordsEndpointResult =>
          /\ Last(testResults').test = Endpoints[Len(epRequests)].test
          /\ Last(testResults').passed =
                IF Len(epRequests) = 1
                THEN response = "healthy"
                ELSE response \in {"healthy", "truthy"}
          /\ response \in {"neterror", "raw", "null", "absent", "falsy"} =>
                ~Last(testResults').passed
      ]_vars

\* The version request resolved with an api_version that is present but
\* falsy, after the health endpoint's result was recorded.
C10_Witness ==
    /\ pc = "ep_await" /\ Len(epRequests) = 2
    /\ response = "falsy" /\ Len(EndpointResults) = 1

\* C11: a stopBackend call made when no process is held (none was ever
\* started, or an earlier stop already dropped it) sends no signal, records
\* no result and leaves testResults and backendProcess unchanged; over a
\* whole run and any further calls at most one termination signal is sent
\* and at most one 'Stop backend' result is recorded.
C11_StopIsNoOpAndIdempotent ==
    [][ /\ extraStops' # extraStops =>
              /\ testResults' = testResults
              /\ signals' = signals
              /\ backendProcess' = backendProcess
              /\ backendProcess' = Null
        /\ Len(signals') <= 1
        /\ Len(SelectSeq(testResults', LAMBDA r : r.test = "Stop backend")) <= 1
      ]_vars

\* stopBackend was called again after a run whose own stopBackend had
\* signalled the process.
C11_Witness ==
    /\ entry = "runTests" /\ extraStops >= 1
    /\ Len(signals) = 1
    /\ Len(ResultsNamed("Stop backend")) = 1

RECURSIVE CountPassed(_)
CountPassed(results) ==
    IF results = << >> THEN 0
    ELSE (IF Head(results).passed THEN 1 ELSE 0) + CountPassed(Tail(results))

\* C12: generateReport returns total = the number of recorded results,
\* passed = the number of results whose passed flag is true and success =
\* (passed = total), which is true iff every recorded result passed; it
\* leaves the result sequence unchanged.
C12_ReportTallies ==
    [][ report' # report =>
          /\ testResults' = testResults
          /\ report'.total = Len(testResults)
          /\ report'.passed = CountPassed(testResults)
          /\ report'.success = (report'.passed = report'.total)
          /\ report'.success = (\A i \in 1..Len(testResults) : testResults[i].passed)
      ]_vars

\* A report over a mix of passed and failed results.
C12_Witness ==
    /\ report # Null
    /\ report.passed > 0 /\ report.passed < report.total
    /\ ~report.success

\* C13: the script run directly exits with 0 exactly when every result
\* recorded during the run passed, and with 1 otherwise.
C13_ExitCode ==
    exitCode # -1 =>
        /\ exitCode \in {0, 1}
        /\ (exitCode = 0) <=> (\A i \in 1..Len(testResults) : testResults[i].passed)
        /\ testResults # << >>

\* A run in which everything passed has exited with 0.
C13_Witness ==
    /\ exitCode = 0
    /\ Len(ResultsNamed("Chart calculation")) = 1
    /\ Len(ResultsNamed("Stop backend")) = 1

\* C14: when the first health request of waitForBackend answers 'healthy',
\* waitForBackend records a passed 'Backend health check' result and
\* returns true, having issued exactly one request and completed no sleep.
C14_FirstHealthyReturnsAtOnce ==
    [][ (pc = "wait_await" /\ response = "healthy" /\ probes = 1) =>
          /\ sleeps = 0
          /\ waitRet' = Returned(TRUE)
          /\ pc' \notin WaitPcs
          /\ probes' = 1 /\ sleeps' = 0
          /\ testResults' =
                Append(testResults, [test |-> "Backend health check", passed |-> TRUE])
      ]_vars

\* waitForBackend returned true after one request and no sleep.
C14_Witness ==
    /\ waitRet = Returned(TRUE)
    /\ probes = 1 /\ sleeps = 0
    /\ Len(ResultsNamed("Backend health check")) = 1

\* The steps of a run in their order; a step may be skipped.
StepOrder ==
    << "runTests", "startBackend", "findBackendExecutable", "spawn",
       "findBackendScript", "spawn", "waitForBackend", "testEndpoints",
       "stopBackend", "generateReport" >>

\* a is b with some elements left out.
RECURSIVE IsSubsequence(_, _)
IsSubsequence(a, b) ==
    IF a = << >> THEN TRUE
    ELSE IF b = << >> THEN FALSE
    ELSE IF Head(a) = Head(b) THEN IsSubsequence(Tail(a), Tail(b))
    ELSE IsSubsequence(a, Tail(b))

ProcessSpawned == \E i \in 1..Len(spawns) : spawns[i].outcome # "throw"

Count_Calls(m) == Len(SelectSeq(calls, LAMBDA c : c = m))
SpawnsOf(type) == Len(SelectSeq(spawns, LAMBDA c : c.type = type))

\* C16: in a run each of findBackendExecutable and findBackendScript is
\* invoked at most once and at most one spawn is attempted per backend
\* kind; once startBackend has returned false, neither waitForBackend nor
\* testEndpoints is run and no request is ever issued.
C16_NoRetryAfterFailedStart ==
    entry = "runTests" =>
        /\ Count_Calls("findBackendExecutable") <= 1
        /\ Count_Calls("findBackendScript") <= 1
        /\ Count_Calls("startBackend") = 1
        /\ SpawnsOf("executable") <= 1
        /\ SpawnsOf("python script") <= 1
        /\ startRet = Returned(FALSE) =>
              /\ ~Called("waitForBackend") /\ ~Called("testEndpoints")
              /\ probes = 0 /\ epRequests = << >>
              /\ backendProcess = Null
              /\ pc \in {"rt_started", "done", "exited"}

\* The located executable and the located script both failed to spawn, and
\* the run has reported.
C16_Witness ==
    /\ entry = "runTests" /\ startRet = Returned(FALSE)
    /\ Len(spawns) = 2 /\ report # Null

\* C17: in a run of runTests results are appended only while a step of the
\* sequence is under way, the result of the child's 'error' handler
\* included: none is appended once generateReport has returned and no
\* 'error' event is left undelivered, so the returned summary counts every
\* result of the run in its total and its success.
C17_EveryResultCounted ==
    [][ entry = "runTests" =>
          /\ testResults' # testResults => pc \notin {"done", "exited"} /\ report = Null
          /\ report' # Null =>
                /\ ~errPending'
                /\ report'.total = Len(testResults')
                /\ report'.success = (\A i \in 1..Len(testResults') : testResults'[i].passed)
      ]_vars

\* A run has reported after the 'error' handler of the spawned executable
\* had recorded its result.
C17_Witness ==
    /\ entry = "runTests" /\ report # Null
    /\ ResultsNamed("Backend executable error") =
          << [test |-> "Backend executable error", passed |-> FALSE] >>
    /\ report.total = Len(testResults)

\* C18: the result sequence only grows at its end: every step leaves the
\* results recorded so far unchanged and in their order.
C18_AppendOnly ==
    [][ /\ Len(testResults') >= Len(testResults)
        /\ SubSeq(testResults', 1, Len(testResults)) = testResults
      ]_vars

\* Results of discovery, start, wait, probes and stop have been recorded.
C18_Witness ==
    /\ Len(testResults) >= 8
    /\ testResults[1].test = "Backend executable found"
    /\ Last(testResults).test = "Stop backend"

\* The OS created the process of some spawn call.
ProcessCreated == \E i \in 1..Len(spawns) : spawns[i].outcome = "ok"

\* C19: when a run of runTests has returned its report, backendProcess is
\* null and the results hold exactly one 'Stop backend' entry, and one
\* termination signal was sent, if a process was spawned, and none
\* otherwise.
C19_StoppedIffSpawned ==
    (entry = "runTests" /\ report # Null) =>
        /\ backendProcess = Null
        /\ Len(ResultsNamed("Stop backend")) = (IF ProcessCreated THEN 1 ELSE 0)
        /\ Len(signals) = (IF ProcessCreated THEN 1 ELSE 0)

\* startBackend returned true from the spawn of the located script.
ScriptStarted ==
    \E i \in 1..Len(spawns) :
        spawns[i].type = "python script" /\ spawns[i].outcome # "throw"

\* C20 as stated: a run whose backend was started through the script
\* fallback reports success = false because the failed 'Backend executable
\* found' result of discovery is part of the tally.
C20_FailedDiscoveryInTally ==
    (entry = "runTests" /\ ScriptStarted /\ report # Null) =>
        /\ ~report.success
        /\ [test |-> "Backend executable found", passed |-> FALSE] \in Range(testResults)

\* C20: a run whose backend was started through the script fallback holds
\* a failed result of the executable attempt, so its report has success =
\* false and the script exits with 1, whatever the health check and the
\* endpoint probes recorded.
C20_ScriptFallbackNeverSucceeds ==
    (entry = "runTests" /\ ScriptStarted) =>
        /\ \/ [test |-> "Backend executable found", passed |-> FALSE] \in Range(testResults)
           \/ [test |-> "Start backend executable", passed |-> FALSE] \in Range(testResults)
        /\ report # Null => ~report.success /\ report.passed < report.total
        /\ exitCode # 0

\* A script-fallback run in which the health check, the four probes and the
\* stop all passed has exited with 1.
C20_Witness ==
    /\ entry = "runTests" /\ ScriptStarted
    /\ exitCode = 1
    /\ report.passed = report.total - 1
    /\ \A i \in 1..Len(EndpointResults) : EndpointResults[i].passed
    /\ Len(EndpointResults) = Len(Endpoints)

\* C21: when runTests calls generateReport at least one result has been
\* recorded, so the report's total is at least 1: the success rate
\* passed/total has a nonzero divisor and success is never the vacuous
\* truth of an empty result list.
C21_ReportNeverEmpty ==
    [][ (entry = "runTests" /\ report = Null /\ report' # Null) =>
          /\ Len(testResults) >= 1
          /\ report'.total >= 1
          /\ report'.success => \E i \in 1..Len(testResults) : testResults[i].passed
      ]_vars

\* runTests has reported on the smallest result list: the single failed
\* 'Test execution' result of a run whose start threw.
C21_Witness ==
    /\ entry = "runTests" /\ report # Null
    /\ report.total = 1
    /\ testResults = << [test |-> "Test execution", passed |-> FALSE] >>

\* Some required icon file is missing.
IconMissing == \E n \in IconNames : iconFiles[n] = Null

\* Some icon is under its minimum size, or an icon entry is absent from
\* package.json or main.js.
OnlyWarnings ==
    \/ \E i \in 1..Len(requiredIcons) :
          LET file == iconFiles[requiredIcons[i].filename]
          IN  file # Null /\ file.size < requiredIcons[i].minSize
    \/ packageJson.kind = "object" /\ packageJson.build # BuildKeys
    \/ mainJs.kind = "text" /\ mainJs.includes # MainTokens

\* C22 as stated: validateIcons returns false exactly when the assets
\* directory or a required icon file is missing, or package.json or main.js
\* cannot be read.
C22_FalseIffMissingOrUnreadable ==
    validateRet # Pending =>
        (validateRet = Returned(FALSE)) <=>
            \/ ~assetsDir
            \/ IconMissing
            \/ packageJson.kind = "unreadable"
            \/ mainJs.kind = "unreadable"

\* C22: validateIcons returns false exactly when the assets directory or a
\* required icon file is missing, package.json cannot be read or parsed
\* into a non-null JSON value, or main.js cannot be read, and true
\* otherwise; small icons and absent icon entries only warn.  With the
\* assets directory missing it returns false after that one check.
C22_FalseIffMissingOrUnusable ==
    /\ validateRet # Pending =>
          /\ validateRet \in {Returned(TRUE), Returned(FALSE)}
          /\ (validateRet = Returned(FALSE)) <=>
                \/ ~assetsDir
                \/ IconMissing
                \/ packageJson.kind \in {"unreadable", "malformed", "null"}
                \/ mainJs.kind = "unreadable"
          /\ ~assetsDir =>
                /\ checksRun = << "assets" >>
                /\ warnings = {} /\ errorsLogged = {"assets"}
          /\ assetsDir =>
                /\ Len(checksRun) = Len(requiredIcons) + 4
                /\ (warnings # {}) <=> OnlyWarnings
    /\ (vpc # "idle" /\ ~assetsDir) => validateRet = Returned(FALSE)

\* validateIcons has returned true although an icon is under its minimum
\* size and icon entries are absent from package.json and main.js.
C22_Witness ==
    /\ validateRet = Returned(TRUE)
    /\ \E n \in IconNames : n \in warnings
    /\ "build.icon" \in warnings
    /\ "main.js icon" \in warnings

=============================================================================
